---- MODULE Spec2Model ----
(***************************************************************************)
(* Credential registry of contracts/src/credentials.rs (Soroban contract). *)
(*                                                                         *)
(* Storage is modelled key by key:                                         *)
(*   instance   Symbol "admin"                  -> admin                   *)
(*   instance   CredentialKey::CredentialCount  -> credential_count        *)
(*   persistent CredentialKey::Credential(id)   -> credentials             *)
(*   persistent CredentialKey::UserCredentials  -> user_credentials        *)
(* A storage read returns an Option: <<>> is None, <<v>> is Some(v).       *)
(*                                                                         *)
(* A contract invocation that panics is rolled back by the host, so an     *)
(* invocation is one atomic step that either commits all of its writes or  *)
(* none of them.  The panics of the code are named by the error kind they  *)
(* stand for:                                                              *)
(*   require_auth() trap                         -> "Unauthenticated"      *)
(*   "Unauthorized issuer", "Only admin can revoke" -> "Unauthorized"      *)
(*   "Credential not found"                      -> "NotFound"             *)
(***************************************************************************)
EXTENDS Integers, Sequences, FiniteSets, TLC

\* ------------------------------------------------------------------ bounds

\* Largest number of credentials the model issues.
MaxCredentials == 3

\* Largest number of credentials issued when the text arguments vary (SpecTexts).
MaxTextCredentials == 2

\* Largest number of credentials issued when issue_credential is followed
\* statement by statement (SpecSteps).
MaxStepCredentials == 2

\* u64::MAX, scaled down so that the top of the counter's range is reached
\* (SpecOverflow): the counter there ranges over 0 .. MaxU64.
MaxU64 == 2

\* ------------------------------------------------------------------ inputs

\* Account addresses that call the contract or receive credentials.
Addresses == {"GADMIN", "GALICE"}

\* The ledger timestamps the host reports, in the order the ledger reaches them.
Timestamps == {1700000000, 1700000005}

\* The text arguments of issue_credential: four distinguishable strings.
CredentialTexts ==
    { [title |-> "Rust on Stellar", description |-> "Completed Soroban basics",
       course_id |-> "course-001", ipfs_hash |-> "ipfs://Qm..."] }

\* Text arguments that differ from call to call (SpecTexts).
VariedCredentialTexts ==
    CredentialTexts \cup
    { [title |-> "Soroban storage", description |-> "Completed the storage track",
       course_id |-> "course-002", ipfs_hash |-> "ipfs://Qn..."] }

\* Credential ids a caller may pass: 0, the issued ones, and one past them.
CredentialIds == 0 .. (MaxCredentials + 1)

\* ------------------------------------------------------------------- state

VARIABLES
    admin,             \* instance storage, Symbol "admin"
    credential_count,  \* instance storage, CredentialKey::CredentialCount (Option<u64>)
    credentials,       \* persistent storage, CredentialKey::Credential(id) -> Credential
    user_credentials,  \* persistent storage, CredentialKey::UserCredentials(addr) -> Vec<u64>
    timestamp,         \* env.ledger().timestamp()
    last,              \* the most recent invocation: its arguments and its outcome
    pre,               \* the registry storage as it was when that invocation started
    issued,            \* history: <<id, recipient, issuer, texts, ledger time>> of every
                       \* successful issue, in call order
    revoked,           \* history: ids for which a revoke_credential call succeeded
    running,           \* the issue_credential invocation in progress (SpecSteps), or None
    notified           \* history: what the storage held at each user_profile::add_credential call

vars == << admin, credential_count, credentials, user_credentials, timestamp,
           last, pre, issued, revoked, running, notified >>

\* The registry storage as one value.
Store ==
    [ admin            |-> admin,
      credential_count |-> credential_count,
      credentials      |-> credentials,
      user_credentials |-> user_credentials ]

\* ------------------------------------------------------------ Option, Result

None == << >>

Some(v) == << v >>

\* Option::unwrap_or
unwrap_or(opt, default) == IF opt = None THEN default ELSE opt[1]

\* A call that returned v.
Ok(v) == [status |-> "Ok", ret |-> v]

\* A call that panicked with the given error kind.
Err(kind) == [status |-> kind, ret |-> None]

\* -------------------------------------------------------------- storage API

\* env.storage().persistent().get(&CredentialKey::Credential(credential_id))
get_persistent_credential(credential_id) ==
    IF credential_id \in DOMAIN credentials
    THEN Some(credentials[credential_id])
    ELSE None

\* env.storage().persistent().get(&CredentialKey::UserCredentials(user))
get_persistent_user_credentials(user) ==
    IF user \in DOMAIN user_credentials
    THEN Some(user_credentials[user])
    ELSE None

\* storage().set(key, value) on a map
storage_set(map, key, value) ==
    [k \in (DOMAIN map) \cup {key} |-> IF k = key THEN value ELSE map[k]]

\* ------------------------------------------------------------ authorization

\* Mutant: the authorization of the invocation is not checked.
require_auth_skipped(auth) == TRUE

\* Address::require_auth: passes iff the host holds a valid authorization
\* of the invocation by that address.
require_auth(auth) == auth

\* Mutant: the issuer is compared with itself, so the check never fires.
unauthorized_issuer_self(issuer) == issuer # issuer

\* if issuer != admin { panic!("Unauthorized issuer") }
unauthorized_issuer(issuer) == issuer # admin

\* Mutant: the revoker check is dropped.
unauthorized_revoker_never(revoker) == FALSE

\* if revoker != admin { panic!("Only admin can revoke") }
unauthorized_revoker(revoker) == revoker # admin

\* --------------------------------------------------------------- issuance

\* Mutant: the increment `count += 1` is missing.
next_count_no_increment == unwrap_or(credential_count, 0)

\* Mutant: an absent counter defaults to 1 instead of 0.
next_count_default_one == unwrap_or(credential_count, 1) + 1

\* let mut count = get(CredentialCount).unwrap_or(0); count += 1;
next_count == unwrap_or(credential_count, 0) + 1

\* Mutant: title and description are stored in each other's field.
new_credential_swapped_texts(count, issuer, recipient, texts) ==
    [ id              |-> count,
      issuer          |-> issuer,
      recipient       |-> recipient,
      title           |-> texts.description,
      description     |-> texts.title,
      course_id       |-> texts.course_id,
      completion_date |-> timestamp,
      ipfs_hash       |-> texts.ipfs_hash,
      is_revoked      |-> FALSE ]

\* Mutant: the record stores the issuer as its recipient.
new_credential_recipient_issuer(count, issuer, recipient, texts) ==
    [ id              |-> count,
      issuer          |-> issuer,
      recipient       |-> issuer,
      title           |-> texts.title,
      description     |-> texts.description,
      course_id       |-> texts.course_id,
      completion_date |-> timestamp,
      ipfs_hash       |-> texts.ipfs_hash,
      is_revoked      |-> FALSE ]

\* Mutant: the record takes its id from the counter before the increment.
new_credential_stale_id(count, issuer, recipient, texts) ==
    [ id              |-> count - 1,
      issuer          |-> issuer,
      recipient       |-> recipient,
      title           |-> texts.title,
      description     |-> texts.description,
      course_id       |-> texts.course_id,
      completion_date |-> timestamp,
      ipfs_hash       |-> texts.ipfs_hash,
      is_revoked      |-> FALSE ]

\* The Credential struct literal of issue_credential.
new_credential(count, issuer, recipient, texts) ==
    [ id              |-> count,
      issuer          |-> issuer,
      recipient       |-> recipient,
      title           |-> texts.title,
      description     |-> texts.description,
      course_id       |-> texts.course_id,
      completion_date |-> timestamp,
      ipfs_hash       |-> texts.ipfs_hash,
      is_revoked      |-> FALSE ]

\* user_profile::add_credential(env, recipient, count): appends the id to the
\* recipient's list under CredentialKey::UserCredentials, creating it if absent.
add_credential(map, user, credential_id) ==
    storage_set(map, user,
                Append(IF user \in DOMAIN map THEN map[user] ELSE << >>, credential_id))

\* --------------------------------------------------------------- revocation

\* Mutant: revocation also restamps the record with the current ledger time.
revoke_restamps(credential) ==
    [credential EXCEPT !.is_revoked = TRUE, !.completion_date = timestamp + 1]

\* Mutant: the flag is flipped instead of set.
revoke_toggle(credential) == [credential EXCEPT !.is_revoked = ~credential.is_revoked]

\* credential.is_revoked = true;
revoke(credential) == [credential EXCEPT !.is_revoked = TRUE]

\* ------------------------------------------------------------------- reads

\* Mutant: the revocation flag is not consulted.
verify_credential_ignores_revocation(credential_id) ==
    LET credential == get_persistent_credential(credential_id)
    IN  IF credential = None THEN Err("NotFound") ELSE Ok(TRUE)

\* verify_credential: panics when the credential is absent, else !is_revoked.
verify_credential(credential_id) ==
    LET credential == get_persistent_credential(credential_id)
    IN  IF credential = None THEN Err("NotFound")
        ELSE IF credential[1].is_revoked THEN Ok(FALSE)
        ELSE Ok(TRUE)

\* Mutant: a missing list panics (unwrap) instead of defaulting to an empty Vec.
get_user_credentials_unwrap(user) ==
    LET list == get_persistent_user_credentials(user)
    IN  IF list = None THEN Err("NotFound") ELSE Ok(list[1])

\* get_user_credentials: the stored list, or Vec::new(env).
get_user_credentials(user) ==
    Ok(unwrap_or(get_persistent_user_credentials(user), << >>))

\* Mutant: a missing record is replaced by a default one (unwrap_or).
get_credential_or_default(credential_id) ==
    Ok(unwrap_or(get_persistent_credential(credential_id),
                 [ id |-> 0, issuer |-> admin, recipient |-> admin, title |-> "",
                   description |-> "", course_id |-> "", completion_date |-> 0,
                   ipfs_hash |-> "", is_revoked |-> FALSE ]))

\* get_credential: the stored record, or a panic.
get_credential(credential_id) ==
    LET credential == get_persistent_credential(credential_id)
    IN  IF credential = None THEN Err("NotFound") ELSE Ok(credential[1])

\* Mutant: an absent counter reads as 1.
get_credential_count_default_one == Ok(unwrap_or(credential_count, 1))

\* get_credential_count: the stored counter, or 0.
get_credential_count == Ok(unwrap_or(credential_count, 0))

\* ----------------------------------------------------------------- actions

\* What `last` records of an invocation.
Call(op, caller, auth, id, user, result) ==
    [ op |-> op, caller |-> caller, auth |-> auth, id |-> id, user |-> user,
      status |-> result.status, ret |-> result.ret ]

\* Mutant: a panicking issue_credential keeps the counter it had incremented.
NoWrite_keeps_count(call) ==
    /\ last' = call
    /\ pre' = Store
    /\ credential_count' =
          IF call.op = "issue_credential" /\ unwrap_or(credential_count, 0) < MaxCredentials
          THEN Some(unwrap_or(credential_count, 0) + 1)
          ELSE credential_count
    /\ UNCHANGED << admin, credentials, user_credentials, timestamp, issued, revoked,
                    running, notified >>

\* An invocation that leaves the storage as it is (a read, or a panic).
NoWrite(call) ==
    /\ last' = call
    /\ pre' = Store
    /\ UNCHANGED << admin, credential_count, credentials, user_credentials,
                    timestamp, issued, revoked,
                    running, notified >>

Init ==
    /\ admin = "GADMIN"
    /\ credential_count = None
    /\ credentials = << >>
    /\ user_credentials = << >>
    /\ timestamp = 1700000000
    /\ last = Call("init", "", FALSE, 0, "", Ok(None))
    /\ pre = Store
    /\ issued = << >>
    /\ revoked = {}
    /\ running = None
    /\ notified = << >>

issue_credential(issuer, auth, recipient, texts) ==
    IF ~require_auth(auth) THEN
        NoWrite(Call("issue_credential", issuer, auth, 0, recipient, Err("Unauthenticated")))
    ELSE IF unauthorized_issuer(issuer) THEN
        NoWrite(Call("issue_credential", issuer, auth, 0, recipient, Err("Unauthorized")))
    ELSE
        LET count == next_count
            credential == new_credential(count, issuer, recipient, texts)
        IN  /\ count <= MaxCredentials
            /\ credentials' = storage_set(credentials, count, credential)
            /\ user_credentials' = add_credential(user_credentials, recipient, count)
            /\ credential_count' = Some(count)
            /\ last' = Call("issue_credential", issuer, auth, count, recipient, Ok(count))
            /\ pre' = Store
            /\ issued' = Append(issued, << count, recipient, issuer, texts, timestamp >>)
            /\ UNCHANGED << admin, timestamp, revoked,
                            running, notified >>

\* Mutant: the credential is looked up before the admin check.
revoke_credential_lookup_first(credential_id, revoker, auth) ==
    IF ~require_auth(auth) THEN
        NoWrite(Call("revoke_credential", revoker, auth, credential_id, "", Err("Unauthenticated")))
    ELSE
        LET credential == get_persistent_credential(credential_id)
        IN  IF credential = None THEN
                NoWrite(Call("revoke_credential", revoker, auth, credential_id, "", Err("NotFound")))
            ELSE IF unauthorized_revoker(revoker) THEN
                NoWrite(Call("revoke_credential", revoker, auth, credential_id, "", Err("Unauthorized")))
            ELSE
                /\ credentials' = storage_set(credentials, credential_id, revoke(credential[1]))
                /\ last' = Call("revoke_credential", revoker, auth, credential_id, "", Ok(None))
                /\ pre' = Store
                /\ revoked' = revoked \cup {credential_id}
                /\ UNCHANGED << admin, credential_count, user_credentials, timestamp, issued,
                                running, notified >>

revoke_credential(credential_id, revoker, auth) ==
    IF ~require_auth(auth) THEN
        NoWrite(Call("revoke_credential", revoker, auth, credential_id, "", Err("Unauthenticated")))
    ELSE IF unauthorized_revoker(revoker) THEN
        NoWrite(Call("revoke_credential", revoker, auth, credential_id, "", Err("Unauthorized")))
    ELSE
        LET credential == get_persistent_credential(credential_id)
        IN  IF credential = None THEN
                NoWrite(Call("revoke_credential", revoker, auth, credential_id, "", Err("NotFound")))
            ELSE
                /\ credentials' = storage_set(credentials, credential_id, revoke(credential[1]))
                /\ last' = Call("revoke_credential", revoker, auth, credential_id, "", Ok(None))
                /\ pre' = Store
                /\ revoked' = revoked \cup {credential_id}
                /\ UNCHANGED << admin, credential_count, user_credentials, timestamp, issued,
                                running, notified >>

\* Mutant: verification marks the record and writes it back.
call_verify_credential_writes(credential_id) ==
    LET result == verify_credential(credential_id)
    IN  IF result.status = "Ok" THEN
            /\ credentials' = storage_set(credentials, credential_id,
                                          revoke(credentials[credential_id]))
            /\ last' = Call("verify_credential", "", FALSE, credential_id, "", result)
            /\ pre' = Store
            /\ UNCHANGED << admin, credential_count, user_credentials, timestamp,
                            issued, revoked,
                            running, notified >>
        ELSE NoWrite(Call("verify_credential", "", FALSE, credential_id, "", result))

call_verify_credential(credential_id) ==
    LET result == verify_credential(credential_id)
    IN  NoWrite(Call("verify_credential", "", FALSE, credential_id, "", result))

call_get_user_credentials(user) ==
    LET result == get_user_credentials(user)
    IN  NoWrite(Call("get_user_credentials", "", FALSE, 0, user, result))

call_get_credential(credential_id) ==
    LET result == get_credential(credential_id)
    IN  NoWrite(Call("get_credential", "", FALSE, credential_id, "", result))

call_get_credential_count ==
    LET result == get_credential_count
    IN  NoWrite(Call("get_credential_count", "", FALSE, 0, "", result))

\* The host ledger closes and its timestamp advances.
advance_ledger ==
    /\ \E later \in Timestamps :
          /\ later > timestamp
          /\ \A t \in Timestamps : t > timestamp => later <= t
          /\ timestamp' = later
    /\ UNCHANGED << admin, credential_count, credentials, user_credentials,
                    last, pre, issued, revoked,
                    running, notified >>

Next ==
    \/ \E issuer \in Addresses, auth \in BOOLEAN, recipient \in Addresses,
          texts \in CredentialTexts :
          issue_credential(issuer, auth, recipient, texts)
    \/ \E credential_id \in CredentialIds, revoker \in Addresses, auth \in BOOLEAN :
          revoke_credential(credential_id, revoker, auth)
    \/ \E credential_id \in CredentialIds : call_verify_credential(credential_id)
    \/ \E user \in Addresses : call_get_user_credentials(user)
    \/ \E credential_id \in CredentialIds : call_get_credential(credential_id)
    \/ call_get_credential_count
    \/ advance_ledger

Spec == Init /\ [][Next]_vars

\* The same calls, with text arguments that vary between issue_credential calls.
NextTexts ==
    \/ \E issuer \in Addresses, auth \in BOOLEAN, recipient \in Addresses,
          texts \in VariedCredentialTexts :
          /\ (require_auth(auth) /\ ~unauthorized_issuer(issuer))
                => unwrap_or(credential_count, 0) < MaxTextCredentials
          /\ issue_credential(issuer, auth, recipient, texts)
    \/ \E credential_id \in CredentialIds, revoker \in Addresses, auth \in BOOLEAN :
          revoke_credential(credential_id, revoker, auth)
    \/ \E credential_id \in CredentialIds : call_verify_credential(credential_id)
    \/ \E user \in Addresses : call_get_user_credentials(user)
    \/ \E credential_id \in CredentialIds : call_get_credential(credential_id)
    \/ call_get_credential_count
    \/ advance_ledger

SpecTexts == Init /\ [][NextTexts]_vars

\* ------------------------------------- issue_credential, statement by statement

\* The host runs one invocation at a time: a call starts only when no
\* invocation is in progress.
HostIdle == running = None

\* Lines 32-52: the authorization checks, the counter read and increment, and the
\* Credential literal.  A panic here ends the call; otherwise the call goes on
\* to its first write at line 54.
issue_start(issuer, auth, recipient, texts) ==
    /\ HostIdle
    /\ IF ~require_auth(auth) THEN
           NoWrite(Call("issue_credential", issuer, auth, 0, recipient, Err("Unauthenticated")))
       ELSE IF unauthorized_issuer(issuer) THEN
           NoWrite(Call("issue_credential", issuer, auth, 0, recipient, Err("Unauthorized")))
       ELSE
           /\ next_count <= MaxStepCredentials
           /\ running' = Some([ pc         |-> 54,
                                issuer     |-> issuer,
                                auth       |-> auth,
                                recipient  |-> recipient,
                                texts      |-> texts,
                                count      |-> next_count,
                                credential |-> new_credential(next_count, issuer, recipient, texts),
                                start      |-> Store ])
           /\ UNCHANGED << admin, credential_count, credentials, user_credentials,
                           timestamp, last, pre, issued, revoked, notified >>

\* Mutant: the credential record is not written before the user profile is called.
issue_set_credential_skipped ==
    /\ running # None
    /\ running[1].pc = 54
    /\ running' = Some([running[1] EXCEPT !.pc = 57])
    /\ UNCHANGED << admin, credential_count, credentials, user_credentials,
                    timestamp, last, pre, issued, revoked, notified >>

\* Line 54: env.storage().persistent().set(&CredentialKey::Credential(count), &credential)
issue_set_credential ==
    /\ running # None
    /\ running[1].pc = 54
    /\ credentials' = storage_set(credentials, running[1].count, running[1].credential)
    /\ running' = Some([running[1] EXCEPT !.pc = 57])
    /\ UNCHANGED << admin, credential_count, user_credentials,
                    timestamp, last, pre, issued, revoked, notified >>

\* Line 57: user_profile::add_credential(env, recipient.clone(), count).  The
\* history records what the storage holds at the moment of the call.
issue_add_credential ==
    /\ running # None
    /\ running[1].pc = 57
    /\ notified' = Append(notified,
                          [ id               |-> running[1].count,
                            credential_count |-> credential_count,
                            stored           |-> DOMAIN credentials ])
    /\ user_credentials' = add_credential(user_credentials, running[1].recipient,
                                          running[1].count)
    /\ running' = Some([running[1] EXCEPT !.pc = 59])
    /\ UNCHANGED << admin, credential_count, credentials,
                    timestamp, last, pre, issued, revoked >>

\* Mutant: the counter is never written back.
issue_set_count_skipped ==
    /\ running # None
    /\ running[1].pc = 59
    /\ running' = Some([running[1] EXCEPT !.pc = 61])
    /\ UNCHANGED << admin, credential_count, credentials, user_credentials,
                    timestamp, last, pre, issued, revoked, notified >>

\* Line 59: env.storage().instance().set(&CredentialKey::CredentialCount, &count)
issue_set_count ==
    /\ running # None
    /\ running[1].pc = 59
    /\ credential_count' = Some(running[1].count)
    /\ running' = Some([running[1] EXCEPT !.pc = 61])
    /\ UNCHANGED << admin, credentials, user_credentials,
                    timestamp, last, pre, issued, revoked, notified >>

\* Line 61: the call returns count.
issue_return ==
    /\ running # None
    /\ running[1].pc = 61
    /\ last' = Call("issue_credential", running[1].issuer, running[1].auth,
                    running[1].count, running[1].recipient, Ok(running[1].count))
    /\ pre' = running[1].start
    /\ issued' = Append(issued, << running[1].count, running[1].recipient,
                                   running[1].issuer, running[1].texts, timestamp >>)
    /\ running' = None
    /\ UNCHANGED << admin, credential_count, credentials, user_credentials,
                    timestamp, revoked, notified >>

NextSteps ==
    \/ \E issuer \in Addresses, auth \in BOOLEAN, recipient \in Addresses,
          texts \in CredentialTexts :
          issue_start(issuer, auth, recipient, texts)
    \/ issue_set_credential
    \/ issue_add_credential
    \/ issue_set_count
    \/ issue_return
    \/ \E credential_id \in CredentialIds, revoker \in Addresses, auth \in BOOLEAN :
          HostIdle /\ revoke_credential(credential_id, revoker, auth)
    \/ \E credential_id \in CredentialIds : HostIdle /\ call_verify_credential(credential_id)
    \/ \E user \in Addresses : HostIdle /\ call_get_user_credentials(user)
    \/ \E credential_id \in CredentialIds : HostIdle /\ call_get_credential(credential_id)
    \/ HostIdle /\ call_get_credential_count
    \/ HostIdle /\ advance_ledger

SpecSteps == Init /\ [][NextSteps]_vars

\* ------------------------------------------ the counter at the top of its range

\* u64 addition that wraps around, as `+=` does when overflow checks are off.
wrapping_add(a, b) == (a + b) % (MaxU64 + 1)

\* issue_credential by the authenticated admin when the stored counter is
\* u64::MAX.  `count += 1` overflows: a build with overflow checks (debug, or
\* overflow-checks = true) panics there (line 40); a build without them wraps
\* count to 0 and goes on to write Credential(0), the recipient's list and the
\* counter.
issue_credential_at_max(issuer, auth, recipient, texts) ==
    /\ require_auth(auth)
    /\ ~unauthorized_issuer(issuer)
    /\ unwrap_or(credential_count, 0) = MaxU64
    /\ \/ NoWrite(Call("issue_credential", issuer, auth, 0, recipient, Err("Overflow")))
       \/ LET count == wrapping_add(unwrap_or(credential_count, 0), 1)
              credential == new_credential(count, issuer, recipient, texts)
          IN  /\ Len(issued) < MaxU64 + 2
              /\ credentials' = storage_set(credentials, count, credential)
              /\ user_credentials' = add_credential(user_credentials, recipient, count)
              /\ credential_count' = Some(count)
              /\ last' = Call("issue_credential", issuer, auth, count, recipient, Ok(count))
              /\ pre' = Store
              /\ issued' = Append(issued, << count, recipient, issuer, texts, timestamp >>)
              /\ UNCHANGED << admin, timestamp, revoked, running, notified >>

NextOverflow ==
    \/ \E issuer \in Addresses, auth \in BOOLEAN, recipient \in Addresses,
          texts \in CredentialTexts :
          /\ (require_auth(auth) /\ ~unauthorized_issuer(issuer))
                => (/\ unwrap_or(credential_count, 0) < MaxU64
                    /\ Len(issued) < MaxU64 + 2)
          /\ issue_credential(issuer, auth, recipient, texts)
    \/ \E issuer \in Addresses, auth \in BOOLEAN, recipient \in Addresses,
          texts \in CredentialTexts :
          issue_credential_at_max(issuer, auth, recipient, texts)
    \/ \E credential_id \in CredentialIds, revoker \in Addresses, auth \in BOOLEAN :
          revoke_credential(credential_id, revoker, auth)
    \/ \E credential_id \in CredentialIds : call_verify_credential(credential_id)
    \/ \E user \in Addresses : call_get_user_credentials(user)
    \/ \E credential_id \in CredentialIds : call_get_credential(credential_id)
    \/ call_get_credential_count
    \/ advance_ledger

SpecOverflow == Init /\ [][NextOverflow]_vars

\* ------------------------------------------------------------------ claims

\* The ids of the credentials successfully issued to `user`, in call order.
IdsIssuedTo(user) ==
    LET mine == SelectSeq(issued, LAMBDA e : e[2] = user)
    IN  [i \in 1 .. Len(mine) |-> mine[i][1]]

\* The number of entries of the credentials map.
NumCredentials == Cardinality(DOMAIN credentials)

\* C1: the ids returned by the successful issue_credential calls, in call
\* order, are 1, 2, 3, ...: the i-th successful call returns i, whatever
\* failed issues, revokes and reads happen in between.
C1_IssuedIdsSequential ==
    /\ \A i \in 1 .. Len(issued) : issued[i][1] = i
    /\ (last.op = "issue_credential" /\ last.status = "Ok")
          => (last.ret = Len(issued) /\ last.ret = unwrap_or(pre.credential_count, 0) + 1)

\* C1 witness: the third successful issue returned, after a revoke succeeded.
C1_Witness ==
    /\ last.op = "issue_credential" /\ last.status = "Ok" /\ last.ret = 3
    /\ Len(issued) = 3
    /\ revoked # {}

\* C2: the counter equals the number of entries of the credentials map and
\* the number of successful issues; get_credential_count returns it, and
\* returns 0 while the counter was never written.
C2_CountMatchesCredentials ==
    /\ get_credential_count.status = "Ok"
    /\ get_credential_count.ret = NumCredentials
    /\ get_credential_count.ret = Len(issued)
    /\ credential_count = None => get_credential_count.ret = 0
    /\ last.op = "get_credential_count"
          => (last.status = "Ok" /\ last.ret = NumCredentials)

\* C2 witness: get_credential_count returned 2 with two credentials stored.
C2_Witness ==
    /\ last.op = "get_credential_count" /\ last.status = "Ok" /\ last.ret = 2
    /\ NumCredentials = 2

\* C3, state part: every issued credential is stored, and verify_credential
\* returns true for it exactly while no revoke_credential of it has succeeded.
C3_VerifyTracksRevocation ==
    /\ \A i \in 1 .. Len(issued) :
          LET result == verify_credential(issued[i][1])
          IN  /\ result.status = "Ok"
              /\ result.ret = (issued[i][1] \notin revoked)
    /\ (last.op = "verify_credential" /\ last.status = "Ok")
          => last.ret = (last.id \notin revoked)

\* C3, step part: a set is_revoked flag stays set (Revoked is terminal).
C3_RevokedStaysRevoked ==
    \A id \in DOMAIN credentials :
        credentials[id].is_revoked
            => (id \in DOMAIN credentials' /\ credentials'[id].is_revoked)

\* C3: verify_credential(id) is true from issuance until the first successful
\* revoke_credential(id, admin) and false ever after; is_revoked never goes
\* from true back to false.
C3_VerifyUntilRevoked ==
    [] C3_VerifyTracksRevocation /\ [][C3_RevokedStaysRevoked]_vars

\* C3 witness: verify_credential returned false for a revoked credential
\* while another credential still verifies.
C3_Witness ==
    /\ last.op = "verify_credential" /\ last.status = "Ok" /\ last.ret = FALSE
    /\ last.id \in revoked
    /\ \E other \in DOMAIN credentials : other \notin revoked

\* C4: get_user_credentials(r) returns exactly the ids issued to r, each once,
\* in issuance order, and the empty sequence (not a failure) when there are none.
C4_UserCredentialsAreIssuedIds ==
    /\ \A user \in Addresses :
          /\ get_user_credentials(user).status = "Ok"
          /\ get_user_credentials(user).ret = IdsIssuedTo(user)
    /\ last.op = "get_user_credentials"
          => (last.status = "Ok" /\ last.ret = IdsIssuedTo(last.user))

\* C4 witness: a read returned <<1, 3>> for one recipient while credential 2
\* went to another.
C4_Witness ==
    /\ last.op = "get_user_credentials" /\ last.status = "Ok"
    /\ last.ret = << 1, 3 >>
    /\ \E other \in Addresses : get_user_credentials(other).ret = << 2 >>

\* C5: issue_credential by an authenticated non-admin fails with Unauthorized
\* and leaves the whole storage, and so the count, as it was.
C5_NonAdminIssueRejected ==
    (last.op = "issue_credential" /\ last.auth /\ last.caller # admin)
        => /\ last.status = "Unauthorized"
           /\ Store = pre
           /\ get_credential_count.ret = unwrap_or(pre.credential_count, 0)

\* C5 witness: a non-admin's issue was rejected in a registry that holds credentials.
C5_Witness ==
    /\ last.op = "issue_credential" /\ last.auth /\ last.caller # admin
    /\ last.status = "Unauthorized"
    /\ NumCredentials >= 1

\* C6: revoke_credential by an authenticated non-admin fails with Unauthorized
\* and leaves the whole storage, is_revoked of the target included, as it was.
C6_NonAdminRevokeRejected ==
    (last.op = "revoke_credential" /\ last.auth /\ last.caller # admin)
        => /\ last.status = "Unauthorized"
           /\ Store = pre
           /\ last.id \in DOMAIN pre.credentials
                 => verify_credential(last.id).ret = ~pre.credentials[last.id].is_revoked

\* C6 witness: a non-admin's revoke of a valid credential was rejected and the
\* credential still verifies.
C6_Witness ==
    /\ last.op = "revoke_credential" /\ last.auth /\ last.caller # admin
    /\ last.status = "Unauthorized"
    /\ last.id \in DOMAIN credentials
    /\ verify_credential(last.id).ret = TRUE

\* C7: verify_credential and get_credential of an id without an entry fail
\* with NotFound and create no entry.
C7_MissingIdNotFound ==
    /\ \A id \in CredentialIds \ DOMAIN credentials :
          /\ verify_credential(id).status = "NotFound"
          /\ get_credential(id).status = "NotFound"
    /\ (last.op \in {"verify_credential", "get_credential"}
          /\ last.id \notin DOMAIN pre.credentials)
          => (last.status = "NotFound" /\ Store = pre)
    /\ \A id \in CredentialIds :
          (id = 0 \/ id > unwrap_or(credential_count, 0)) => id \notin DOMAIN credentials

\* C7 witness: get_credential of an id past the counter failed with NotFound
\* in a registry that holds credentials, and id 0 is missing too.
C7_Witness ==
    /\ last.op = "get_credential" /\ last.status = "NotFound"
    /\ last.id > unwrap_or(credential_count, 0)
    /\ NumCredentials >= 1
    /\ verify_credential(0).status = "NotFound"

\* C8: revoke_credential by the admin of an already revoked credential
\* succeeds and leaves the storage exactly as it was.
C8_RevokeIdempotent ==
    (/\ last.op = "revoke_credential" /\ last.auth /\ last.caller = admin
     /\ last.id \in DOMAIN pre.credentials
     /\ pre.credentials[last.id].is_revoked)
        => (last.status = "Ok" /\ Store = pre)

\* C8 witness: the admin revoked a credential that was revoked before the call.
C8_Witness ==
    /\ last.op = "revoke_credential" /\ last.status = "Ok"
    /\ last.id \in DOMAIN pre.credentials
    /\ pre.credentials[last.id].is_revoked

\* C9: every id in a recipient's list names a stored credential whose
\* recipient is that recipient.
C9_IndexMatchesRecipient ==
    \A user \in DOMAIN user_credentials :
        \A i \in 1 .. Len(user_credentials[user]) :
            LET id == user_credentials[user][i]
            IN  /\ id \in DOMAIN credentials
                /\ credentials[id].recipient = user

\* C9 witness: two recipients, one of them not the issuer, hold credentials.
C9_Witness ==
    /\ Cardinality(DOMAIN user_credentials) = 2
    /\ \E user \in DOMAIN user_credentials :
          user # admin /\ Len(user_credentials[user]) = 2

\* C10, state part: the keys of the credentials map are 1 .. credential_count
\* and each record's id is its key.
C10_KeysDense ==
    /\ DOMAIN credentials = 1 .. unwrap_or(credential_count, 0)
    /\ 0 \notin DOMAIN credentials
    /\ \A id \in DOMAIN credentials : credentials[id].id = id

\* C10, step part: no entry is removed.
C10_NoEntryRemoved == DOMAIN credentials \subseteq DOMAIN credentials'

\* C10: the keys of the credentials map are exactly 1 .. credential_count,
\* no entry is ever removed, and every record's id field is its key.
C10_KeysAreOneToCount ==
    [] C10_KeysDense /\ [][C10_NoEntryRemoved]_vars

\* C10 witness: three credentials are stored and one of them was revoked.
C10_Witness ==
    /\ DOMAIN credentials = {1, 2, 3}
    /\ credential_count = Some(3)
    /\ revoked # {}

\* The operations that only read.
ReadOps ==
    {"verify_credential", "get_credential", "get_user_credentials", "get_credential_count"}

\* C11: issue_credential and revoke_credential without a valid authorization
\* fail with Unauthenticated and leave the storage as it was, also when the
\* claimed caller is the admin and when the id to revoke does not exist.
C11_UnauthenticatedRejected ==
    (last.op \in {"issue_credential", "revoke_credential"} /\ ~last.auth)
        => (last.status = "Unauthenticated" /\ Store = pre)

\* C11 witness: an unauthenticated revoke in the admin's name of an id that
\* does not exist was rejected, in a registry that holds credentials.
C11_Witness ==
    /\ last.op = "revoke_credential" /\ ~last.auth /\ last.caller = admin
    /\ last.id \notin DOMAIN credentials
    /\ last.status = "Unauthenticated"
    /\ NumCredentials >= 1

\* C13: a successful revoke_credential(id, admin) changes is_revoked of
\* credentials[id] and nothing else; the credential stays stored and its id
\* stays in its recipient's list.
C13_RevokeChangesOnlyFlag ==
    (last.op = "revoke_credential" /\ last.status = "Ok")
        => /\ last.id \in DOMAIN pre.credentials
           /\ credentials = [pre.credentials EXCEPT ![last.id].is_revoked = TRUE]
           /\ credential_count = pre.credential_count
           /\ user_credentials = pre.user_credentials
           /\ admin = pre.admin
           /\ \E i \in 1 .. Len(get_user_credentials(credentials[last.id].recipient).ret) :
                 get_user_credentials(credentials[last.id].recipient).ret[i] = last.id

\* C13 witness: the admin revoked a valid credential while another one is stored
\* and the ledger time has moved on since it was issued.
C13_Witness ==
    /\ last.op = "revoke_credential" /\ last.status = "Ok"
    /\ ~pre.credentials[last.id].is_revoked
    /\ credentials[last.id].completion_date < timestamp
    /\ NumCredentials >= 2

\* C14: the authenticated admin's revoke of a missing id fails with NotFound
\* and leaves the storage as it was; an authenticated non-admin's revoke of a
\* missing id fails with Unauthorized, not NotFound.
C14_RevokeMissingId ==
    (last.op = "revoke_credential" /\ last.auth /\ last.id \notin DOMAIN pre.credentials)
        => /\ Store = pre
           /\ last.id \notin DOMAIN credentials
           /\ last.caller = admin => last.status = "NotFound"
           /\ last.caller # admin => last.status = "Unauthorized"

\* C14 witness: the admin's revoke of an id past the counter failed with NotFound.
C14_Witness ==
    /\ last.op = "revoke_credential" /\ last.auth /\ last.caller = admin
    /\ last.status = "NotFound"
    /\ last.id > unwrap_or(credential_count, 0)
    /\ NumCredentials >= 1

\* C15: the reads never change the storage, whether they succeed or fail, and
\* take no caller: they succeed exactly when the entry they read exists
\* (get_user_credentials and get_credential_count always).
C15_ReadsChangeNothing ==
    last.op \in ReadOps
        => /\ Store = pre
           /\ last.status \in {"Ok", "NotFound"}
           /\ last.op \in {"verify_credential", "get_credential"}
                 => (last.status = "Ok" <=> last.id \in DOMAIN credentials)
           /\ last.op \in {"get_user_credentials", "get_credential_count"}
                 => last.status = "Ok"

\* C15 witness: verify_credential succeeded on a valid credential.
C15_Witness ==
    /\ last.op = "verify_credential" /\ last.status = "Ok" /\ last.ret = TRUE
    /\ NumCredentials >= 2

\* C16: a successful issue to r adds one credential entry, appends the new id
\* to r's list and adds 1 to the counter; stored credentials, other
\* recipients' lists and the admin are as before.
C16_IssueFrame ==
    (last.op = "issue_credential" /\ last.status = "Ok")
        => LET before == IF last.user \in DOMAIN pre.user_credentials
                         THEN pre.user_credentials[last.user] ELSE << >>
           IN  /\ last.ret \notin DOMAIN pre.credentials
               /\ DOMAIN credentials = DOMAIN pre.credentials \cup {last.ret}
               /\ \A id \in DOMAIN pre.credentials : credentials[id] = pre.credentials[id]
               /\ DOMAIN user_credentials = DOMAIN pre.user_credentials \cup {last.user}
               /\ \A user \in DOMAIN pre.user_credentials :
                     user # last.user => user_credentials[user] = pre.user_credentials[user]
               /\ user_credentials[last.user] = Append(before, last.ret)
               /\ unwrap_or(credential_count, 0) = unwrap_or(pre.credential_count, 0) + 1
               /\ admin = pre.admin

\* C16 witness: the third credential went to a recipient who held one already,
\* while the other recipient holds one and a stored credential is revoked.
C16_Witness ==
    /\ last.op = "issue_credential" /\ last.status = "Ok" /\ last.ret = 3
    /\ Cardinality(DOMAIN pre.user_credentials) = 2
    /\ Len(pre.user_credentials[last.user]) = 1
    /\ \E id \in DOMAIN pre.credentials : pre.credentials[id].is_revoked

\* C19, state part: a call that ended in an error left the storage as it was.
C19_ErrorChangesNothing == last.status # "Ok" => Store = pre

\* C19, step part: the call that follows a failed call with the same
\* operation and arguments, in the state it left, fails with the same error.
C19_SameCallSameError ==
    (/\ last.status # "Ok"
     /\ last'.op = last.op /\ last'.caller = last.caller /\ last'.auth = last.auth
     /\ last'.id = last.id /\ last'.user = last.user)
        => (last'.status = last.status /\ pre' = Store)

\* C19: every call that ends in Unauthenticated, Unauthorized or NotFound
\* leaves the storage as it was, and the same call repeated fails the same way.
C19_ErrorsAreClean ==
    [] C19_ErrorChangesNothing /\ [][C19_SameCallSameError]_vars

\* C19 witness: the admin's revoke of a missing id failed with NotFound in a
\* registry that holds a revoked credential.
C19_Witness ==
    /\ last.status = "NotFound" /\ last.op = "revoke_credential"
    /\ NumCredentials >= 1
    /\ revoked # {}

\* C12: the credential stored by a successful issue_credential returning n has
\* id n, the calling admin as issuer, the supplied recipient and texts, the
\* ledger time of the call as completion_date and is_revoked = false; all but
\* is_revoked keep these values in every later state.
C12_StoredFieldsAreArguments ==
    /\ \A i \in 1 .. Len(issued) :
          LET call == issued[i]
              result == get_credential(call[1])
          IN  /\ result.status = "Ok"
              /\ result.ret.id = call[1]
              /\ result.ret.issuer = call[3]
              /\ result.ret.issuer = admin
              /\ result.ret.recipient = call[2]
              /\ result.ret.title = call[4].title
              /\ result.ret.description = call[4].description
              /\ result.ret.course_id = call[4].course_id
              /\ result.ret.ipfs_hash = call[4].ipfs_hash
              /\ result.ret.completion_date = call[5]
              /\ result.ret.is_revoked = (call[1] \in revoked)
    /\ (last.op = "issue_credential" /\ last.status = "Ok")
          => get_credential(last.ret).ret.is_revoked = FALSE

\* C12 witness: get_credential returned the first of two credentials that were
\* issued with different texts at different ledger times, after it was revoked.
C12_Witness ==
    /\ last.op = "get_credential" /\ last.status = "Ok" /\ last.id = 1
    /\ Len(issued) = 2
    /\ issued[1][4] # issued[2][4]
    /\ issued[1][5] # issued[2][5]
    /\ last.ret.is_revoked

\* C17 as claimed: when user_profile::add_credential is called, credential_count
\* already equals the new id and the number of stored credentials.
C17_NotifiedPostCommit ==
    \A i \in 1 .. Len(notified) :
        /\ notified[i].credential_count = Some(notified[i].id)
        /\ Cardinality(notified[i].stored) = notified[i].id

\* C17 as amended: when user_profile::add_credential is called, the credential
\* record is already stored but credential_count still holds the previous
\* value (absent, or the new id minus 1); the counter is set to the new id
\* after the call returns and before issue_credential ends.
C17_NotifiedBeforeCount ==
    /\ \A i \in 1 .. Len(notified) :
          /\ notified[i].id \in notified[i].stored
          /\ Cardinality(notified[i].stored) = notified[i].id
          /\ unwrap_or(notified[i].credential_count, 0) = notified[i].id - 1
    /\ running # None =>
          /\ running[1].pc = 57 =>
                (Len(notified) = running[1].count - 1 /\ running[1].count \in DOMAIN credentials)
          /\ running[1].pc \in {59, 61} => Len(notified) = running[1].count
          /\ running[1].pc = 59 => unwrap_or(credential_count, 0) = running[1].count - 1
          /\ running[1].pc = 61 => credential_count = Some(running[1].count)
    /\ running = None =>
          (Len(notified) = Len(issued) /\ unwrap_or(credential_count, 0) = Len(notified))

\* C17 witness: the second issue_credential has called the user profile and is
\* about to write the counter.
C17_Witness ==
    /\ running # None
    /\ running[1].pc = 59
    /\ Len(notified) = 2
    /\ notified[2].credential_count = Some(1)

\* The storage that results from the successful calls applied one after the
\* other: the issues in call order, then each revoke.
SequentialStore ==
    [ admin            |-> admin,
      credential_count |-> IF issued = << >> THEN None ELSE Some(Len(issued)),
      credentials      |->
          [ id \in 1 .. Len(issued) |->
              [ id              |-> id,
                issuer          |-> issued[id][3],
                recipient       |-> issued[id][2],
                title           |-> issued[id][4].title,
                description     |-> issued[id][4].description,
                course_id       |-> issued[id][4].course_id,
                completion_date |-> issued[id][5],
                ipfs_hash       |-> issued[id][4].ipfs_hash,
                is_revoked      |-> id \in revoked ] ],
      user_credentials |->
          [ user \in { issued[i][2] : i \in 1 .. Len(issued) } |-> IdsIssuedTo(user) ] ]

\* A storage in which the counter equals the number of stored credentials.
Committed(store) ==
    unwrap_or(store.credential_count, 0) = Cardinality(DOMAIN store.credentials)

C20_NoOverwriteNoWrap ==
    /\ (last.op = "issue_credential" /\ last.status = "Ok")
          => (last.ret # 0 /\ last.ret \notin DOMAIN pre.credentials)
    /\ (/\ last.op = "issue_credential" /\ last.auth /\ last.caller = admin
        /\ unwrap_or(pre.credential_count, 0) = MaxU64)
          => (last.status # "Ok" /\ Store = pre)
    /\ 0 \notin DOMAIN credentials

====
